---- MODULE Spec2Model ----
(***************************************************************************)
(* J.CURVES: a Blender add-on.  Three operators (add curve, convert to     *)
(* mesh, bake image), two sidebar panels, two property groups and the      *)
(* register/unregister functions of its three Python modules.              *)
(*                                                                         *)
(* The host (bpy) is modelled by the part of its state the add-on reads or *)
(* writes: the class registry, the scene's property groups and render      *)
(* settings, bpy.data (node groups, materials, images, objects), the       *)
(* context (active object, selection, mode), the node tree of the active   *)
(* material, the screen areas and the bundled .blend file.                 *)
(***************************************************************************)
EXTENDS Integers, Sequences, FiniteSets, TLC

(* ------------------------------ bounds -------------------------------- *)
\* Objects the add-curve operator may create in all, and nodes the material's
\* tree may hold.  Materials and images need no bound: a convert copies at
\* most one material per slot, and every image is created with a node.
MaxObjects == 1
MaxNodes == 2

VARIABLES
    registered,          \* classes registered with bpy.utils.register_class
    scene_attrs,         \* PointerProperty attributes attached to bpy.types.Scene
    simple_bake_props,   \* scene.simple_bake_props (SimpleBakeProps)
    jcurves_bake_props,  \* scene.jcurves_bake_props (JCurvesBakeProps)
    blend_file,          \* the bundled "J_Curves Geometry Nodes.blend"
    node_groups,         \* names in bpy.data.node_groups
    materials,           \* bpy.data.materials
    objects,             \* bpy.data.objects: type, modifiers, material slots and
                         \* the state of obj.active_material
    active_object,       \* context.active_object (0 = None)
    selected_objects,    \* context.selected_objects
    mode,                \* context.mode
    render,              \* scene.render / scene.cycles settings the bake touches
    nodes,               \* mat.node_tree.nodes of the material that uses nodes
    active_node,         \* mat.node_tree.nodes.active (0 = None)
    images,              \* bpy.data.images (image id -> size)
    areas,               \* context.screen.areas
    pc,                  \* "idle", or "baking" while bpy.ops.object.bake runs
    frame,               \* locals of the bake operator's execute while it runs
    last                 \* outcome of the last call: function, result, reports;
                         \* for the bake, also the state its execute was entered
                         \* in; for a panel's draw, the widgets it laid out

reg_vars == <<registered, scene_attrs>>
prop_vars == <<simple_bake_props, jcurves_bake_props>>
curve_vars == <<blend_file, node_groups, materials, objects, selected_objects, mode>>
bake_vars == <<render, nodes, active_node, images, areas, pc, frame>>
vars == <<registered, scene_attrs, simple_bake_props, jcurves_bake_props,
          blend_file, node_groups, materials, objects, active_object,
          selected_objects, mode, render, nodes, active_node, images, areas,
          pc, frame, last>>

(* ---------------------------- small helpers --------------------------- *)
Range(s) == {s[i] : i \in 1..Len(s)}

Reverse(s) == [i \in 1..Len(s) |-> s[Len(s) + 1 - i]]

\* The outcome record of a call: which function ran, what it returned
\* ("FINISHED", "CANCELLED", "RETURNED" for a plain function, "RAISED" for an
\* exception that left it), the self.report() calls it made, the host errors it
\* caught in an except clause, and what it created.
Outcome(fn, ret, reports, caught, made) ==
    [fn |-> fn, ret |-> ret, reports |-> reports, caught |-> caught, made |-> made,
     entry |-> <<>>]

NoCall == Outcome("none", "NONE", {}, {}, {})

(* --------------------------- registration ----------------------------- *)
init_classes == <<"CURVE_OT_ADDJCURVE", "JCurves">>

jcurves_classes ==
    <<"SimpleBakeProps", "CURVE_OT_ADDJCURVE", "CURVE_OT_CONVERT_TO_MESH", "JCurves">>

bake_panel_classes ==
    <<"JCurvesBakeProps", "MATERIAL_OT_bake_image", "JCURVES_PT_bake_panel">>

AllClasses == Range(jcurves_classes) \cup Range(bake_panel_classes)

\* for cls in classes: register_class(cls).  The host raises ValueError for a
\* class that is already registered; the exception leaves the loop, and the
\* classes registered before it stay registered.
RECURSIVE register_all(_, _)
register_all(classes, reg) ==
    IF classes = <<>> THEN [reg |-> reg, raised |-> FALSE]
    ELSE IF Head(classes) \in reg THEN [reg |-> reg, raised |-> TRUE]
    ELSE register_all(Tail(classes), reg \cup {Head(classes)})

\* for cls in classes: unregister_class(cls).  The host raises RuntimeError for
\* a class that is not registered.
RECURSIVE unregister_all(_, _)
unregister_all(classes, reg) ==
    IF classes = <<>> THEN [reg |-> reg, raised |-> FALSE]
    ELSE IF Head(classes) \notin reg THEN [reg |-> reg, raised |-> TRUE]
    ELSE unregister_all(Tail(classes), reg \ {Head(classes)})

CallResult(fn, raised) ==
    Outcome(fn, IF raised THEN "RAISED" ELSE "RETURNED", {}, {}, {})

\* __init__.register
init_register ==
    LET r == register_all(init_classes, registered) IN
    /\ pc = "idle"
    /\ registered' = r.reg
    /\ last' = CallResult("__init__.register", r.raised)
    /\ UNCHANGED <<scene_attrs, prop_vars, curve_vars, active_object, bake_vars>>

\* __init__.unregister
init_unregister ==
    LET r == unregister_all(init_classes, registered) IN
    /\ pc = "idle"
    /\ registered' = r.reg
    /\ last' = CallResult("__init__.unregister", r.raised)
    /\ UNCHANGED <<scene_attrs, prop_vars, curve_vars, active_object, bake_vars>>

\* jcurves.register
jcurves_register ==
    LET r == register_all(jcurves_classes, registered) IN
    /\ pc = "idle"
    /\ registered' = r.reg
    /\ scene_attrs' = IF r.raised THEN scene_attrs
                      ELSE scene_attrs \cup {"simple_bake_props"}
    /\ last' = CallResult("jcurves.register", r.raised)
    /\ UNCHANGED <<prop_vars, curve_vars, active_object, bake_vars>>

\* jcurves.unregister
jcurves_unregister ==
    LET r == unregister_all(Reverse(jcurves_classes), registered) IN
    /\ pc = "idle"
    /\ scene_attrs' = scene_attrs \ {"simple_bake_props"}
    /\ registered' = r.reg
    /\ last' = CallResult("jcurves.unregister", r.raised)
    /\ UNCHANGED <<prop_vars, curve_vars, active_object, bake_vars>>

\* bake_panel.register
bake_panel_register ==
    LET r == register_all(bake_panel_classes, registered) IN
    /\ pc = "idle"
    /\ registered' = r.reg
    /\ scene_attrs' = IF r.raised THEN scene_attrs
                      ELSE scene_attrs \cup {"jcurves_bake_props"}
    /\ last' = CallResult("bake_panel.register", r.raised)
    /\ UNCHANGED <<prop_vars, curve_vars, active_object, bake_vars>>

\* bake_panel.unregister
bake_panel_unregister ==
    LET r == unregister_all(Reverse(bake_panel_classes), registered) IN
    /\ pc = "idle"
    /\ scene_attrs' = scene_attrs \ {"jcurves_bake_props"}
    /\ registered' = r.reg
    /\ last' = CallResult("bake_panel.unregister", r.raised)
    /\ UNCHANGED <<prop_vars, curve_vars, active_object, bake_vars>>

(* ------------------------- property groups ---------------------------- *)
\* SimpleBakeProps with its defaults
SimpleBakeProps == [use_existing_colors |-> FALSE]

\* JCurvesBakeProps with its defaults
JCurvesBakeProps ==
    [resolution |-> 2048, max_samples |-> 1, denoise |-> FALSE, bake_margin |-> 8,
     clear_image |-> TRUE, bake_to_selected_image |-> FALSE, show_advanced |-> FALSE]

\* The values a widget can be set to (the enum's items; for the integer
\* properties the default and one other value inside [min, max]).
ResolutionItems == {1024, 2048}
WidgetValues(field) ==
    CASE field = "resolution" -> ResolutionItems
      [] field = "max_samples" -> {1, 4}
      [] field = "bake_margin" -> {8, 0}
      [] OTHER -> BOOLEAN

(* ------------------------------ panels -------------------------------- *)
\* JCurves.draw: the widgets it lays out.  context.scene.simple_bake_props is
\* read first; without the attribute the draw raises and lays out nothing.
JCurves_layout ==
    IF "simple_bake_props" \notin scene_attrs THEN {}
    ELSE {"curve.add_jcurve", "curve.convert_to_mesh", "use_existing_colors"}

JCurves_draw ==
    /\ pc = "idle"
    /\ "JCurves" \in registered
    /\ last' = Outcome("JCurves.draw",
                       IF "simple_bake_props" \notin scene_attrs
                       THEN "RAISED" ELSE "RETURNED",
                       {}, {}, JCurves_layout)
    /\ UNCHANGED <<reg_vars, prop_vars, curve_vars, active_object, bake_vars>>

\* JCURVES_PT_bake_panel.draw
JCURVES_PT_bake_panel_layout ==
    IF "jcurves_bake_props" \notin scene_attrs THEN {}
    ELSE {"resolution", "material.bake_image", "show_advanced"} \cup
         (IF jcurves_bake_props.show_advanced
          THEN {"max_samples", "denoise", "bake_margin", "clear_image",
                "bake_to_selected_image"}
          ELSE {})

JCURVES_PT_bake_panel_draw ==
    /\ pc = "idle"
    /\ "JCURVES_PT_bake_panel" \in registered
    /\ last' = Outcome("JCURVES_PT_bake_panel.draw",
                       IF "jcurves_bake_props" \notin scene_attrs
                       THEN "RAISED" ELSE "RETURNED",
                       {}, {}, JCURVES_PT_bake_panel_layout)
    /\ UNCHANGED <<reg_vars, prop_vars, curve_vars, active_object, bake_vars>>

\* layout.prop(props, field): the user edits a widget of the panel just drawn
\* (the host redraws the panel after every event).
SimpleWidgetEdit ==
    /\ pc = "idle"
    /\ last.fn = "JCurves.draw"
    /\ \E field \in DOMAIN simple_bake_props :
         /\ field \in last.made
         /\ \E v \in WidgetValues(field) :
              /\ v # simple_bake_props[field]
              /\ simple_bake_props' = [simple_bake_props EXCEPT ![field] = v]
    /\ last' = CallResult("widget", FALSE)
    /\ UNCHANGED <<reg_vars, jcurves_bake_props, curve_vars, active_object, bake_vars>>

BakeWidgetEdit ==
    /\ pc = "idle"
    /\ last.fn = "JCURVES_PT_bake_panel.draw"
    /\ \E field \in DOMAIN jcurves_bake_props :
         /\ field \in last.made
         /\ \E v \in WidgetValues(field) :
              /\ v # jcurves_bake_props[field]
              /\ jcurves_bake_props' = [jcurves_bake_props EXCEPT ![field] = v]
    /\ last' = CallResult("widget", FALSE)
    /\ UNCHANGED <<reg_vars, simple_bake_props, curve_vars, active_object, bake_vars>>

(* ------------------------------ bpy.data ------------------------------ *)
\* A datablock or modifier name.  The host keeps names unique inside a
\* collection by appending ".001", ".002", ...: n is that suffix (0 = none).
Name(base) == [base |-> base, n |-> 0]

unique_name(name, used) ==
    IF name \notin used THEN name
    ELSE [base |-> name.base,
          n |-> CHOOSE k \in 1..(Cardinality(used) + 1) :
                  /\ [base |-> name.base, n |-> k] \notin used
                  /\ \A j \in 1..(k - 1) : [base |-> name.base, n |-> j] \in used]

ModifierNames(obj) == {obj.modifiers[i].name : i \in 1..Len(obj.modifiers)}

\* obj.modifiers.new(name, "NODES") followed by mod.node_group = group
modifiers_new(obj, name, group) ==
    [obj EXCEPT !.modifiers =
        Append(@, [name |-> unique_name(Name(name), ModifierNames(obj)),
                   node_group |-> group])]

\* the object bpy.ops.curve.primitive_nurbs_path_add creates
NewCurve ==
    [type |-> "CURVE", modifiers |-> <<>>, material_slots |-> <<>>,
     active_material |-> "None"]

\* bpy.ops.curve.primitive_nurbs_path_add(enter_editmode=True): inside the edit
\* mode of a curve the host adds the path to that curve; otherwise it creates a
\* curve object, which becomes the active and the only selected object.
primitive_nurbs_path_add ==
    IF mode = "EDIT" /\ active_object # 0 /\ objects[active_object].type = "CURVE"
    THEN [objects |-> objects, active |-> active_object,
          selected |-> selected_objects, created |-> FALSE]
    ELSE [objects |-> Append(objects, NewCurve), active |-> Len(objects) + 1,
          selected |-> {Len(objects) + 1}, created |-> TRUE]

(* ----------------------- operator 1: add curve ------------------------ *)
\* Faulty variant of add_jcurve_load: the except clause reports the failure
\* but does not return
add_jcurve_load_no_return(load_raises) ==
    IF "J.CURVES" \in node_groups
    THEN [ok |-> TRUE, node_groups |-> node_groups, reports |-> {}, caught |-> {},
          made |-> {}]
    ELSE IF ~blend_file.exists
    THEN [ok |-> FALSE, node_groups |-> node_groups,
          reports |-> {<<"ERROR", "Blend file not found">>}, caught |-> {},
          made |-> {}]
    ELSE IF load_raises
    THEN [ok |-> TRUE, node_groups |-> node_groups,
          reports |-> {<<"ERROR", "Failed to link node group">>},
          caught |-> {"library_load"}, made |-> {}]
    ELSE IF "J.CURVES" \notin blend_file.node_groups
    THEN [ok |-> FALSE, node_groups |-> node_groups,
          reports |-> {<<"ERROR", "Node group not found in .blend file">>},
          caught |-> {}, made |-> {}]
    ELSE [ok |-> TRUE, node_groups |-> node_groups \cup {"J.CURVES"},
          reports |-> {}, caught |-> {}, made |-> {"node_group"}]

\* Faulty variant of add_jcurve_load: the node group is asked for without
\* looking whether the file holds it
add_jcurve_load_unchecked(load_raises) ==
    IF "J.CURVES" \in node_groups
    THEN [ok |-> TRUE, node_groups |-> node_groups, reports |-> {}, caught |-> {},
          made |-> {}]
    ELSE IF ~blend_file.exists
    THEN [ok |-> FALSE, node_groups |-> node_groups,
          reports |-> {<<"ERROR", "Blend file not found">>}, caught |-> {},
          made |-> {}]
    ELSE IF load_raises
    THEN [ok |-> FALSE, node_groups |-> node_groups,
          reports |-> {<<"ERROR", "Failed to link node group">>},
          caught |-> {"library_load"}, made |-> {}]
    ELSE [ok |-> TRUE, node_groups |-> node_groups \cup {"J.CURVES"},
          reports |-> {}, caught |-> {}, made |-> {"node_group"}]

\* "Load node group if not already loaded": the outcome of the block, with the
\* node groups loaded afterwards.  load_raises: the host's libraries.load fails.
add_jcurve_load(load_raises) ==
    IF "J.CURVES" \in node_groups
    THEN [ok |-> TRUE, node_groups |-> node_groups, reports |-> {}, caught |-> {},
          made |-> {}]
    ELSE IF ~blend_file.exists
    THEN [ok |-> FALSE, node_groups |-> node_groups,
          reports |-> {<<"ERROR", "Blend file not found">>}, caught |-> {},
          made |-> {}]
    ELSE IF load_raises
    THEN [ok |-> FALSE, node_groups |-> node_groups,
          reports |-> {<<"ERROR", "Failed to link node group">>},
          caught |-> {"library_load"}, made |-> {}]
    ELSE IF "J.CURVES" \notin blend_file.node_groups
    THEN [ok |-> FALSE, node_groups |-> node_groups,
          reports |-> {<<"ERROR", "Node group not found in .blend file">>},
          caught |-> {}, made |-> {}]
    ELSE [ok |-> TRUE, node_groups |-> node_groups \cup {"J.CURVES"},
          reports |-> {}, caught |-> {}, made |-> {"node_group"}]

\* "Apply modifier to selected curve objects": whether the loop gives obj the
\* modifier
add_jcurve_applies(obj) ==
    obj.type = "CURVE" /\ Name("J.CURVES") \notin ModifierNames(obj)

add_jcurve_modifiers(objs, selected) ==
    [i \in DOMAIN objs |->
        IF i \in selected /\ add_jcurve_applies(objs[i])
        THEN modifiers_new(objs[i], "J.CURVES", "J.CURVES")
        ELSE objs[i]]

\* CURVE_OT_ADDJCURVE.execute
CURVE_OT_ADDJCURVE_execute ==
    /\ pc = "idle"
    /\ "CURVE_OT_ADDJCURVE" \in registered
    /\ \E load_raises \in BOOLEAN :
         LET ld == add_jcurve_load(load_raises)
             add == primitive_nurbs_path_add
         IN
         IF ~ld.ok
         THEN /\ last' = Outcome("curve.add_jcurve", "CANCELLED", ld.reports,
                                 ld.caught, {})
              /\ UNCHANGED <<node_groups, objects, active_object, selected_objects, mode>>
         ELSE /\ Len(add.objects) <= MaxObjects
              /\ node_groups' = ld.node_groups
              /\ objects' = add_jcurve_modifiers(add.objects, add.selected)
              /\ active_object' = add.active
              /\ selected_objects' = add.selected
              /\ mode' = "EDIT"
              /\ last' = Outcome("curve.add_jcurve", "FINISHED", ld.reports, ld.caught,
                                 ld.made
                                 \cup (IF add.created THEN {"curve"} ELSE {})
                                 \cup (IF \E i \in add.selected :
                                            add_jcurve_applies(add.objects[i])
                                       THEN {"modifier"} ELSE {}))
    /\ UNCHANGED <<reg_vars, prop_vars, blend_file, materials, bake_vars>>

(* -------------------- operator 2: convert to mesh --------------------- *)
\* bpy.ops.object.convert(target='MESH'): the selected curves become meshes.
\* The host applies their modifiers; keep_modifiers covers a host that leaves
\* them on the object.
object_convert(objs, selected, keep_modifiers) ==
    [i \in DOMAIN objs |->
        IF i \in selected /\ objs[i].type = "CURVE"
        THEN [objs[i] EXCEPT !.type = "MESH",
                             !.modifiers = IF keep_modifiers THEN @ ELSE <<>>]
        ELSE objs[i]]

Min(S) == CHOOSE x \in S : \A y \in S : x <= y

\* bpy.data.materials.get(name): a material of that name, 0 for None.  A local
\* and a linked material may share a name; lookup says which the host finds.
materials_get(mats, name, lookup) ==
    LET named == {k \in DOMAIN mats : mats[k].name = name}
        local == {k \in named : mats[k].library = "None"}
    IN IF named = {} THEN 0
       ELSE IF lookup = "local_first"
            THEN (IF local # {} THEN Min(local) ELSE Min(named))
            ELSE (IF named \ local # {} THEN Min(named \ local) ELSE Min(named))

LocalNames(mats) == {mats[k].name : k \in {j \in DOMAIN mats : mats[j].library = "None"}}

\* mat.copy(): a new local material, appended to bpy.data.materials
material_copy(mats, mat) ==
    Append(mats, [name |-> unique_name(mats[mat].name, LocalNames(mats)),
                  library |-> "None"])

\* Faulty variant of make_local_slot: a material found by name is reused
\* without looking whether it is local
make_local_slot_any_existing(st, i, lookup) ==
    LET mat == st.slots[i] IN
    IF mat = 0 THEN st
    ELSE IF st.materials[mat].library = "None" THEN st
    ELSE LET existing == materials_get(st.materials, st.materials[mat].name, lookup) IN
         IF existing # 0
         THEN [st EXCEPT !.slots[i] = existing,
                         !.reports = @ \cup {<<"INFO", "Reused local material">>}]
         ELSE [st EXCEPT !.materials = material_copy(@, mat),
                         !.slots[i] = Len(st.materials) + 1,
                         !.made_local = TRUE,
                         !.reports = @ \cup {<<"INFO", "Made material local">>}]

\* "Make materials local": one slot of the loop.  st holds mesh_obj's slots,
\* bpy.data.materials, made_local and the reports so far.
make_local_slot(st, i, lookup) ==
    LET mat == st.slots[i] IN
    IF mat = 0 THEN st
    ELSE IF st.materials[mat].library = "None" THEN st
    ELSE LET existing_local == materials_get(st.materials, st.materials[mat].name, lookup) IN
         IF existing_local # 0 /\ st.materials[existing_local].library = "None"
         THEN [st EXCEPT !.slots[i] = existing_local,
                         !.reports = @ \cup {<<"INFO", "Reused local material">>}]
         ELSE [st EXCEPT !.materials = material_copy(@, mat),
                         !.slots[i] = Len(st.materials) + 1,
                         !.made_local = TRUE,
                         !.reports = @ \cup {<<"INFO", "Made material local">>}]

RECURSIVE make_local_from(_, _, _)
make_local_from(st, i, lookup) ==
    IF i > Len(st.slots) THEN st
    ELSE make_local_from(make_local_slot(st, i, lookup), i + 1, lookup)

make_materials_local(slots, mats, lookup) ==
    make_local_from([slots |-> slots, materials |-> mats, made_local |-> FALSE,
                     reports |-> {}], 1, lookup)

\* Faulty variant of color_modifier_wanted: the option is not looked at
color_modifier_wanted_ignoring_option(made_local, use_existing_colors) ==
    made_local

\* The condition of "Add color modifier if materials were made local and
\* option is enabled"
color_modifier_wanted(made_local, use_existing_colors) ==
    made_local /\ ~use_existing_colors

\* The block under that condition: the node groups and the mesh afterwards
add_color_modifier(mesh_obj, load_raises) ==
    IF Name("J.CURVEScolor") \in ModifierNames(mesh_obj)
    THEN [obj |-> mesh_obj, node_groups |-> node_groups, reports |-> {}, caught |-> {},
          made |-> {}]
    ELSE IF ~blend_file.exists
    THEN [obj |-> mesh_obj, node_groups |-> node_groups,
          reports |-> {<<"WARNING", "Blend file not found">>}, caught |-> {},
          made |-> {}]
    ELSE LET attempt == "J.CURVEScolor" \notin node_groups
             raised == attempt /\ load_raises
             found == "J.CURVEScolor" \in blend_file.node_groups
             groups == IF attempt /\ ~raised /\ found
                       THEN node_groups \cup {"J.CURVEScolor"} ELSE node_groups
             load_reports ==
                 IF raised THEN {<<"WARNING", "Failed to load node group">>}
                 ELSE IF attempt /\ ~found
                 THEN {<<"WARNING", "Node group not found in .blend file">>}
                 ELSE {}
         IN IF "J.CURVEScolor" \in groups
            THEN [obj |-> modifiers_new(mesh_obj, "J.CURVEScolor", "J.CURVEScolor"),
                  node_groups |-> groups,
                  reports |-> load_reports
                              \cup {<<"INFO", "Added Geometry Nodes modifier">>},
                  caught |-> IF raised THEN {"library_load"} ELSE {},
                  made |-> {"modifier"}
                           \cup (IF groups # node_groups THEN {"node_group"} ELSE {})]
            ELSE [obj |-> mesh_obj, node_groups |-> groups,
                  reports |-> load_reports
                              \cup {<<"WARNING", "Could not assign J.CURVEScolor node group">>},
                  caught |-> IF raised THEN {"library_load"} ELSE {},
                  made |-> {}]

\* CURVE_OT_CONVERT_TO_MESH.execute, from "Make materials local" on, for the
\* objects as bpy.ops.object.convert left them
convert_to_mesh_finish(converted, lookup, load_raises) ==
    LET mesh_obj == converted[active_object]
        loc == make_materials_local(mesh_obj.material_slots, materials, lookup)
        localized == [mesh_obj EXCEPT !.material_slots = loc.slots]
        copied == IF loc.made_local THEN {"material"} ELSE {}
    IN
    /\ materials' = loc.materials
    /\ IF "simple_bake_props" \notin scene_attrs
       THEN \* context.scene.simple_bake_props raises AttributeError
            /\ objects' = [converted EXCEPT ![active_object] = localized]
            /\ last' = Outcome("curve.convert_to_mesh", "RAISED", loc.reports, {}, copied)
            /\ UNCHANGED node_groups
       ELSE IF color_modifier_wanted(loc.made_local, simple_bake_props.use_existing_colors)
       THEN LET col == add_color_modifier(localized, load_raises) IN
            /\ objects' = [converted EXCEPT ![active_object] = col.obj]
            /\ node_groups' = col.node_groups
            /\ last' = Outcome("curve.convert_to_mesh", "FINISHED",
                               loc.reports \cup col.reports
                               \cup {<<"INFO", "Converted to mesh">>},
                               col.caught, copied \cup col.made)
       ELSE /\ objects' = [converted EXCEPT ![active_object] = localized]
            /\ last' = Outcome("curve.convert_to_mesh", "FINISHED",
                               loc.reports \cup {<<"INFO", "Converted to mesh">>},
                               {}, copied)
            /\ UNCHANGED node_groups

\* CURVE_OT_CONVERT_TO_MESH.execute.  The host decides whether convert raises,
\* whether the converted objects keep their modifiers, which material a name
\* finds and whether libraries.load raises.
CURVE_OT_CONVERT_TO_MESH_execute ==
    /\ pc = "idle"
    /\ "CURVE_OT_CONVERT_TO_MESH" \in registered
    /\ IF active_object = 0
       THEN /\ last' = Outcome("curve.convert_to_mesh", "CANCELLED",
                               {<<"ERROR", "No active object selected">>}, {}, {})
            /\ UNCHANGED <<node_groups, materials, objects, mode>>
       ELSE IF objects[active_object].type # "CURVE"
       THEN /\ last' = Outcome("curve.convert_to_mesh", "CANCELLED",
                               {<<"ERROR", "Active object is not a curve">>}, {}, {})
            /\ UNCHANGED <<node_groups, materials, objects, mode>>
       ELSE /\ mode' = "OBJECT"
            /\ \E convert_raises \in BOOLEAN :
                 IF convert_raises
                 THEN /\ last' = Outcome("curve.convert_to_mesh", "CANCELLED",
                                         {<<"ERROR", "Convert failed">>}, {"convert"}, {})
                      /\ UNCHANGED <<node_groups, materials, objects>>
                 ELSE \E keep_modifiers, load_raises \in BOOLEAN,
                         lookup \in {"local_first", "linked_first"} :
                        convert_to_mesh_finish(
                            object_convert(objects, selected_objects, keep_modifiers),
                            lookup, load_raises)
    /\ UNCHANGED <<reg_vars, prop_vars, blend_file, active_object, selected_objects,
                   bake_vars>>

(* ---------------------- operator 3: bake image ------------------------ *)
NoFrame == [running |-> FALSE]

\* "Try to get image from Image Editor": the image of the first Image Editor
\* area that has one, 0 for None
image_editor_image ==
    LET shown == {i \in DOMAIN areas :
                    areas[i].type = "IMAGE_EDITOR" /\ areas[i].image # 0}
    IN IF shown = {} THEN 0 ELSE areas[Min(shown)].image

\* "Fallback: get image from active texture node"
active_node_image ==
    IF active_node # 0 /\ nodes[active_node].type = "TEX_IMAGE"
       /\ nodes[active_node].image # 0
    THEN nodes[active_node].image
    ELSE 0

\* Faulty variant of selected_image: the active node is asked before the
\* Image Editor
selected_image_node_first ==
    IF active_node_image # 0 THEN active_node_image ELSE image_editor_image

\* The image chosen when bake_to_selected_image is set, 0 for None
selected_image ==
    IF image_editor_image # 0 THEN image_editor_image ELSE active_node_image

ImageIds == {im.id : im \in images}

ImageSize(id) == (CHOOSE im \in images : im.id = id).size

\* bpy.data.images.new(width=resolution, height=resolution): the new image's id
new_image_id == Min((1..(Cardinality(images) + 1)) \ ImageIds)

\* nodes.new(type='ShaderNodeTexImage') bound to image, then "Select and make
\* active": every node deselected, the bake node selected
nodes_with_bake_node(image) ==
    Append([i \in DOMAIN nodes |-> [nodes[i] EXCEPT !.select = FALSE]],
           [type |-> "TEX_IMAGE", image |-> image, select |-> TRUE])

\* Faulty variant of saved_bake_settings: the values are read after the bake
\* settings were applied
saved_bake_settings_after_apply(r) ==
    [samples |-> jcurves_bake_props.max_samples,
     denoise |-> jcurves_bake_props.denoise,
     margin |-> jcurves_bake_props.bake_margin,
     clear |-> jcurves_bake_props.clear_image,
     btype |-> "DIFFUSE", use_diffuse |-> TRUE,
     use_direct |-> IF r.use_pass_direct # "ABSENT" THEN "FALSE" ELSE "NONE",
     use_indirect |-> IF r.use_pass_direct # "ABSENT" THEN "FALSE" ELSE "NONE"]

\* "SAVE BAKE SETTINGS": old_samples ... old_use_indirect
saved_bake_settings(r) ==
    [samples |-> r.samples, denoise |-> r.use_denoising, margin |-> r.margin,
     clear |-> r.use_clear, btype |-> r.bake_type, use_diffuse |-> r.use_pass_diffuse,
     use_direct |-> IF r.use_pass_direct # "ABSENT" THEN r.use_pass_direct ELSE "NONE",
     use_indirect |-> IF r.use_pass_direct # "ABSENT" THEN r.use_pass_indirect ELSE "NONE"]

\* "APPLY BAKE SETTINGS"
applied_bake_settings(r, props) ==
    [r EXCEPT !.samples = props.max_samples,
              !.use_denoising = props.denoise,
              !.margin = props.bake_margin,
              !.use_clear = props.clear_image,
              !.bake_type = "DIFFUSE",
              !.use_pass_diffuse = TRUE,
              !.use_pass_direct = IF @ # "ABSENT" THEN "FALSE" ELSE @,
              !.use_pass_indirect = IF r.use_pass_direct # "ABSENT" THEN "FALSE" ELSE @]

\* "SWITCH TO CYCLES", "SWITCH RENDER DEVICE"
switched_to_cycles_gpu(r) == [r EXCEPT !.engine = "CYCLES", !.device = "GPU"]

\* MATERIAL_OT_bake_image._restore_bake_settings
restore_bake_settings(r, old) ==
    [r EXCEPT !.samples = old.samples,
              !.use_denoising = old.denoise,
              !.margin = old.margin,
              !.use_clear = old.clear,
              !.bake_type = old.btype,
              !.use_pass_diffuse = old.use_diffuse,
              !.use_pass_direct = IF old.use_direct # "NONE" THEN old.use_direct ELSE @,
              !.use_pass_indirect = IF old.use_indirect # "NONE" THEN old.use_indirect ELSE @]

\* the two assignments after _restore_bake_settings
restore_engine_device(r, f) ==
    [r EXCEPT !.engine = f.original_engine, !.device = f.original_device]

\* The state execute is entered in, kept with the outcome
Entry == [render |-> render, images |-> images, nodes |-> nodes,
          active_node |-> active_node]

BakeOutcome(ret, reports, caught, made, entered) ==
    [fn |-> "material.bake_image", ret |-> ret, reports |-> reports,
     caught |-> caught, made |-> made, entry |-> entered]

\* MATERIAL_OT_bake_image.execute, from its entry to the call of
\* bpy.ops.object.bake or to an earlier return
MATERIAL_OT_bake_image_execute ==
    /\ pc = "idle"
    /\ "MATERIAL_OT_bake_image" \in registered
    /\ IF "jcurves_bake_props" \notin scene_attrs
       THEN /\ last' = BakeOutcome("RAISED", {}, {}, {}, Entry)
            /\ UNCHANGED <<render, nodes, active_node, images, pc, frame>>
       ELSE IF active_object = 0
       THEN /\ last' = BakeOutcome("CANCELLED",
                               {<<"ERROR", "No active object selected">>}, {}, {}, Entry)
            /\ UNCHANGED <<render, nodes, active_node, images, pc, frame>>
       ELSE IF objects[active_object].active_material # "nodes"
       THEN /\ last' = BakeOutcome("CANCELLED",
                               {<<"ERROR", "Active material has no node tree">>}, {}, {}, Entry)
            /\ UNCHANGED <<render, nodes, active_node, images, pc, frame>>
       ELSE LET props == jcurves_bake_props
                switched == switched_to_cycles_gpu(render)
                to_selected == props.bake_to_selected_image
            IN
            IF to_selected /\ selected_image = 0
            THEN /\ render' = switched
                 /\ last' = BakeOutcome("CANCELLED",
                                    {<<"ERROR", "No image selected">>}, {}, {}, Entry)
                 /\ UNCHANGED <<nodes, active_node, images, pc, frame>>
            ELSE LET image == IF to_selected THEN selected_image ELSE new_image_id
                     size_reports ==
                         IF to_selected
                         THEN (IF ImageSize(image) # props.resolution
                               THEN {<<"WARNING", "Selected image has another size">>}
                               ELSE {})
                         ELSE {<<"INFO", "Created image">>}
                 IN
                 /\ Len(nodes) < MaxNodes
                 /\ images' = IF to_selected THEN images
                              ELSE images \cup {[id |-> image, size |-> props.resolution]}
                 /\ nodes' = nodes_with_bake_node(image)
                 /\ active_node' = Len(nodes) + 1
                 /\ render' = applied_bake_settings(switched, props)
                 /\ frame' = [running |-> TRUE,
                              original_engine |-> render.engine,
                              original_device |-> render.device,
                              old |-> saved_bake_settings(switched),
                              image |-> image,
                              bake_node |-> Len(nodes) + 1,
                              reports |-> size_reports]
                 /\ pc' = "baking"
                 /\ last' = BakeOutcome("RUNNING", size_reports, {},
                                        {"node"} \cup (IF to_selected THEN {}
                                                       ELSE {"image"}),
                                        Entry)
    /\ UNCHANGED <<reg_vars, prop_vars, curve_vars, active_object, areas>>

\* nodes.remove(bake_node): the node goes; it was the active one
nodes_remove(ns, node) == SubSeq(ns, 1, node - 1) \o SubSeq(ns, node + 1, Len(ns))

\* bpy.data.images.remove(image)
images_remove(ims, image) == {im \in ims : im.id # image}

\* bpy.ops.object.bake returned: "RESTORE SETTINGS" to return {'FINISHED'}
bake_returned ==
    /\ pc = "baking"
    /\ render' = restore_engine_device(restore_bake_settings(render, frame.old), frame)
    /\ last' = BakeOutcome("FINISHED",
                           frame.reports \cup {<<"INFO", "Baking completed">>,
                                               <<"INFO", "Baked to image">>},
                           {}, last.made, last.entry)
    /\ pc' = "idle"
    /\ frame' = NoFrame
    /\ UNCHANGED <<reg_vars, prop_vars, curve_vars, active_object,
                   nodes, active_node, images, areas>>

\* Faulty variant of images_after_failed_bake: the created image is left behind
images_after_failed_bake_kept(ims, props, f) == ims

\* What the except clause removes from bpy.data.images
images_after_failed_bake(ims, props, f) ==
    IF ~props.bake_to_selected_image THEN images_remove(ims, f.image) ELSE ims

\* Faulty variant of bake_raised: the except clause also switches the bake
\* target back to a new image
bake_raised_resets_target ==
    /\ pc = "baking"
    /\ images' = IF ~jcurves_bake_props.bake_to_selected_image
                 THEN images_remove(images, frame.image) ELSE images
    /\ nodes' = nodes_remove(nodes, frame.bake_node)
    /\ active_node' = 0
    /\ render' = restore_engine_device(restore_bake_settings(render, frame.old), frame)
    /\ jcurves_bake_props' =
         [jcurves_bake_props EXCEPT !.bake_to_selected_image = FALSE]
    /\ last' = BakeOutcome("CANCELLED",
                           frame.reports \cup {<<"ERROR", "Baking failed">>},
                           {"bake"}, {}, last.entry)
    /\ pc' = "idle"
    /\ frame' = NoFrame
    /\ UNCHANGED <<reg_vars, simple_bake_props, curve_vars, active_object, areas>>

\* bpy.ops.object.bake raised RuntimeError: the except clause
bake_raised ==
    /\ pc = "baking"
    /\ images' = images_after_failed_bake(images, jcurves_bake_props, frame)
    /\ nodes' = nodes_remove(nodes, frame.bake_node)
    /\ active_node' = 0
    /\ render' = restore_engine_device(restore_bake_settings(render, frame.old), frame)
    /\ last' = BakeOutcome("CANCELLED",
                           frame.reports \cup {<<"ERROR", "Baking failed">>},
                           {"bake"}, {}, last.entry)
    /\ pc' = "idle"
    /\ frame' = NoFrame
    /\ UNCHANGED <<reg_vars, prop_vars, curve_vars, active_object, areas>>

(* --------------------------- initial states --------------------------- *)
\* The property groups hold their defaults and nothing has been called
InitUI ==
    /\ simple_bake_props = SimpleBakeProps
    /\ jcurves_bake_props = JCurvesBakeProps
    /\ pc = "idle"
    /\ frame = NoFrame
    /\ last = NoCall

BundledFile == [exists |-> TRUE, node_groups |-> {"J.CURVES", "J.CURVEScolor"}]
MissingFile == [exists |-> FALSE, node_groups |-> {}]

BlendFiles == {MissingFile, [exists |-> TRUE, node_groups |-> {}], BundledFile}

LinkedHair == [name |-> Name("Hair"), library |-> "lib"]
LocalHair == [name |-> Name("Hair"), library |-> "None"]

EeveeSettings ==
    [engine |-> "BLENDER_EEVEE_NEXT", device |-> "CPU", samples |-> 128,
     use_denoising |-> TRUE, margin |-> 16, use_clear |-> FALSE,
     bake_type |-> "COMBINED", use_pass_diffuse |-> FALSE,
     use_pass_direct |-> "TRUE", use_pass_indirect |-> "TRUE"]

CyclesSettings ==
    [EeveeSettings EXCEPT !.engine = "CYCLES", !.device = "GPU"]

\* a host whose bake settings have no use_pass_direct / use_pass_indirect
OlderHostSettings ==
    [EeveeSettings EXCEPT !.use_pass_direct = "ABSENT", !.use_pass_indirect = "ABSENT"]

ShaderNode == [type |-> "BSDF_PRINCIPLED", image |-> 0, select |-> TRUE]
ImageNode(image) == [type |-> "TEX_IMAGE", image |-> image, select |-> TRUE]

Object(type, mods, slots, mat) ==
    [type |-> type, modifiers |-> mods, material_slots |-> slots,
     active_material |-> mat]

SlotChoices(mats) ==
    LET ids == 0..Len(mats) IN
    {<<>>} \cup {<<a>> : a \in ids} \cup {<<a, b>> : a \in ids, b \in ids}

ModifierChoices ==
    {<<>>,
     <<[name |-> Name("J.CURVES"), node_group |-> "J.CURVES"]>>,
     <<[name |-> Name("J.CURVEScolor"), node_group |-> "J.CURVEScolor"]>>}

\* Scenes for the curve operators, after jcurves.register: any state of the
\* bundled file and of the loaded node groups, no object or one object
InitCurves ==
    /\ registered = Range(jcurves_classes)
    /\ scene_attrs = {"simple_bake_props"}
    /\ InitUI
    /\ blend_file \in BlendFiles
    /\ node_groups \in SUBSET {"J.CURVES", "J.CURVEScolor"}
    /\ materials \in {<<LinkedHair>>, <<LinkedHair, LocalHair>>}
    /\ \/ objects = <<>> /\ active_object = 0 /\ selected_objects = {}
       \/ /\ objects = <<Object("MESH", <<>>, <<>>, "None")>>
          /\ active_object = 1
          /\ selected_objects = {1}
       \/ /\ \E m \in ModifierChoices, s \in SlotChoices(materials) :
                objects = <<Object("CURVE", m, s, "None")>>
          /\ \/ active_object = 0 /\ selected_objects = {}
             \/ active_object = 1 /\ selected_objects \in {{}, {1}}
    /\ mode \in {"OBJECT", "EDIT"}
    /\ render = EeveeSettings
    /\ nodes = <<ShaderNode>>
    /\ active_node = 1
    /\ images = {}
    /\ areas = <<[type |-> "VIEW_3D", image |-> 0]>>

AreaChoices ==
    {<<[type |-> "VIEW_3D", image |-> 0]>>,
     <<[type |-> "VIEW_3D", image |-> 0], [type |-> "IMAGE_EDITOR", image |-> 0]>>,
     <<[type |-> "IMAGE_EDITOR", image |-> 0], [type |-> "VIEW_3D", image |-> 1],
       [type |-> "IMAGE_EDITOR", image |-> 2], [type |-> "IMAGE_EDITOR", image |-> 1]>>}

NodeChoices ==
    {<<>>, <<ShaderNode>>, <<ImageNode(0)>>, <<ImageNode(1)>>}

\* Scenes for the bake operator, after both modules' register: a converted mesh
\* whose material uses nodes, with any render settings, node tree and screen;
\* or no active object, or a material without nodes.  The bundled file is gone.
InitBake ==
    /\ registered = AllClasses
    /\ scene_attrs = {"simple_bake_props", "jcurves_bake_props"}
    /\ InitUI
    /\ blend_file = MissingFile
    /\ node_groups = {}
    /\ materials = <<LocalHair>>
    /\ mode = "OBJECT"
    /\ images = {[id |-> 1, size |-> 1024], [id |-> 2, size |-> 2048]}
    /\ \/ /\ objects = <<Object("MESH", <<>>, <<1>>, "nodes")>>
          /\ active_object = 1
          /\ selected_objects = {1}
          /\ \/ /\ render = EeveeSettings
                /\ nodes \in NodeChoices
                /\ active_node \in 0..Len(nodes)
                /\ areas \in AreaChoices
             \/ /\ render \in {CyclesSettings, OlderHostSettings}
                /\ nodes = <<ShaderNode>>
                /\ active_node = 1
                /\ areas = <<[type |-> "VIEW_3D", image |-> 0]>>
       \/ /\ \/ objects = <<>> /\ active_object = 0 /\ selected_objects = {}
             \/ /\ \E mat \in {"None", "no_nodes"} :
                      objects = <<Object("MESH", <<>>, <<1>>, mat)>>
                /\ active_object = 1
                /\ selected_objects = {1}
          /\ render = EeveeSettings
          /\ nodes = <<ShaderNode>>
          /\ active_node = 1
          /\ areas = <<[type |-> "VIEW_3D", image |-> 0]>>

\* The add-on has just been installed: nothing is registered
InitInstalled ==
    /\ registered = {}
    /\ scene_attrs = {}
    /\ InitUI
    /\ blend_file = BundledFile
    /\ node_groups = {}
    /\ materials = <<LinkedHair>>
    /\ objects = <<>>
    /\ active_object = 0
    /\ selected_objects = {}
    /\ mode = "OBJECT"
    /\ render = EeveeSettings
    /\ nodes = <<ShaderNode>>
    /\ active_node = 1
    /\ images = {}
    /\ areas = <<[type |-> "VIEW_3D", image |-> 0]>>

Init == InitCurves \/ InitBake

(* ------------------------------ behaviour ----------------------------- *)
NextReg ==
    \/ init_register
    \/ init_unregister
    \/ jcurves_register
    \/ jcurves_unregister
    \/ bake_panel_register
    \/ bake_panel_unregister

NextUI ==
    \/ JCurves_draw
    \/ SimpleWidgetEdit
    \/ JCURVES_PT_bake_panel_draw
    \/ BakeWidgetEdit

NextCurves ==
    \/ CURVE_OT_ADDJCURVE_execute
    \/ CURVE_OT_CONVERT_TO_MESH_execute
    \/ JCurves_draw
    \/ SimpleWidgetEdit

NextBake ==
    \/ MATERIAL_OT_bake_image_execute
    \/ bake_returned
    \/ bake_raised
    \/ JCURVES_PT_bake_panel_draw
    \/ BakeWidgetEdit

Next == NextCurves \/ NextBake

\* The operators and panels at work in a registered add-on
Spec == Init /\ [][Next]_vars

\* The curve operators alone, and the bake operator alone
SpecCurves == InitCurves /\ [][NextCurves]_vars

SpecBake == InitBake /\ [][NextBake]_vars

\* The modules' register and unregister functions, and the panels they make
\* available
SpecReg == InitInstalled /\ [][NextReg \/ NextUI]_vars

(* ------------------------------ properties ---------------------------- *)
BakeCalled == last.fn = "material.bake_image"

\* C1: whenever the bake operator's execute has returned, FINISHED or
\* CANCELLED and on whatever path, the render settings it touches have the
\* values they had when execute was entered.
C1_SettingsRestoredOnEveryPath ==
    (BakeCalled /\ last.ret \in {"FINISHED", "CANCELLED"})
        => render = last.entry.render

\* The nodes of the material, without their selection state
NodeSet(ns) == [i \in DOMAIN ns |-> [type |-> ns[i].type, image |-> ns[i].image]]

\* C2: when the host bake raises, the operator reports the failure, returns
\* CANCELLED, has restored the render settings, and the images and the nodes of
\* the material are those before the call (the created node is removed, the
\* created image too, a user-selected image is not).
C2_FailedBakeUndone ==
    (BakeCalled /\ "bake" \in last.caught)
        => /\ last.ret = "CANCELLED"
           /\ <<"ERROR", "Baking failed">> \in last.reports
           /\ render = last.entry.render
           /\ images = last.entry.images
           /\ NodeSet(nodes) = NodeSet(last.entry.nodes)

\* a bake to a new image has failed
C2_Witness ==
    /\ BakeCalled /\ last.caught = {"bake"} /\ last.ret = "CANCELLED"
    /\ ~jcurves_bake_props.bake_to_selected_image
    /\ render # switched_to_cycles_gpu(render)

Operators == {"CURVE_OT_ADDJCURVE", "CURVE_OT_CONVERT_TO_MESH", "MATERIAL_OT_bake_image"}
Panels == {"JCurves", "JCURVES_PT_bake_panel"}
PropertyGroups == {"simple_bake_props", "jcurves_bake_props"}

\* C3: after the add-on's register() the three operators and the two panels
\* are registered and both property groups are attached to the scene; after
\* its unregister() none of them is.
C3_RegisterRegistersAll ==
    /\ (last.fn = "__init__.register" /\ last.ret = "RETURNED")
         => /\ Operators \cup Panels \subseteq registered
            /\ PropertyGroups \subseteq scene_attrs
    /\ (last.fn = "__init__.unregister" /\ last.ret = "RETURNED")
         => /\ (Operators \cup Panels) \cap registered = {}
            /\ PropertyGroups \cap scene_attrs = {}

OperatorCalled ==
    last.fn \in {"curve.add_jcurve", "curve.convert_to_mesh", "material.bake_image"}

HasReport(level) == \E r \in last.reports : r[1] = level

\* C4 as stated: an operator that caught a host error has reported it and
\* returned CANCELLED.
C4_CaughtErrorCancels ==
    (OperatorCalled /\ last.caught # {})
        => last.reports # {} /\ last.ret = "CANCELLED"

\* C4 as amended: an operator that caught a host error has reported it; it
\* returned CANCELLED with an ERROR report when the error came from the
\* library load of add-curve, from convert or from the bake; when it came from
\* the library load of convert-to-mesh the report is a WARNING, no modifier is
\* added and the operator returns FINISHED.
C4_CaughtErrorReported ==
    (OperatorCalled /\ last.caught # {})
        => /\ last.reports # {}
           /\ IF last.fn = "curve.convert_to_mesh" /\ last.caught = {"library_load"}
              THEN /\ last.ret = "FINISHED"
                   /\ <<"WARNING", "Failed to load node group">> \in last.reports
                   /\ "modifier" \notin last.made
              ELSE /\ last.ret = "CANCELLED"
                   /\ HasReport("ERROR")

\* convert-to-mesh has caught a failed library load
C4_Witness ==
    /\ last.fn = "curve.convert_to_mesh"
    /\ last.caught = {"library_load"}
    /\ "material" \in last.made

\* C5: the fields of the two property groups change only in a widget edit: no
\* step of an operator and no panel draw changes any of them.
C5_PropsChangeOnlyByWidgets ==
    [][(simple_bake_props' # simple_bake_props
        \/ jcurves_bake_props' # jcurves_bake_props)
           => (SimpleWidgetEdit \/ BakeWidgetEdit)]_vars

\* a bake has finished with settings the user had edited
C5_Witness ==
    /\ BakeCalled /\ last.ret = "FINISHED"
    /\ jcurves_bake_props.max_samples # JCurvesBakeProps.max_samples
    /\ jcurves_bake_props.bake_to_selected_image

IsLocal(mats, m) == mats[m].library = "None"

\* C6: when convert-to-mesh returns FINISHED every non-empty slot of the mesh
\* holds a local material: a slot that held a linked material holds a local
\* material of that name that existed before, or a copy made in this
\* execution; a slot that held a local material, or none, is unchanged; and
\* no material that existed is changed.
C6_SlotsLocalAfterConvert ==
    [][(CURVE_OT_CONVERT_TO_MESH_execute /\ last'.ret = "FINISHED")
        => LET before == objects[active_object].material_slots
               after == objects'[active_object].material_slots
           IN /\ Len(after) = Len(before)
              /\ \A k \in DOMAIN materials : materials'[k] = materials[k]
              /\ \A i \in 1..Len(before) :
                   IF before[i] = 0 THEN after[i] = 0
                   ELSE IF IsLocal(materials, before[i]) THEN after[i] = before[i]
                   ELSE /\ after[i] \in DOMAIN materials'
                        /\ IsLocal(materials', after[i])
                        /\ materials'[after[i]].name.base = materials[before[i]].name.base
                        /\ after[i] \in DOMAIN materials
                             => materials[after[i]].name = materials[before[i]].name]_vars

\* a convert has copied a linked material and reused the copy for another slot
C6_Witness ==
    /\ last.fn = "curve.convert_to_mesh" /\ last.ret = "FINISHED"
    /\ "material" \in last.made
    /\ <<"INFO", "Reused local material">> \in last.reports

ColorModifier == [name |-> Name("J.CURVEScolor"), node_group |-> "J.CURVEScolor"]

NamedModifiers(obj, name) ==
    Cardinality({i \in 1..Len(obj.modifiers) : obj.modifiers[i].name = Name(name)})

\* C7: convert-to-mesh adds the J.CURVEScolor modifier only when
\* use_existing_colors is unchecked, a material was copied in this execution,
\* the mesh had no modifier of that name and the node group is loaded after
\* the load attempt; otherwise the modifiers are those the host's convert
\* left; and no object has two modifiers named J.CURVEScolor.
C7_ColorModifierOnlyWhenWanted ==
    [][CURVE_OT_CONVERT_TO_MESH_execute
        => IF active_object = 0 THEN objects' = objects ELSE
           LET before == objects[active_object].modifiers
               after == objects'[active_object].modifiers
               left == {before, <<>>}
           IN /\ \/ after \in left
                 \/ /\ after \in {Append(m, ColorModifier) : m \in left}
                    /\ ~simple_bake_props.use_existing_colors
                    /\ Len(materials') > Len(materials)
                    /\ "J.CURVEScolor" \in node_groups'
                    /\ \E m \in left :
                         /\ after = Append(m, ColorModifier)
                         /\ \A i \in 1..Len(m) : m[i].name # Name("J.CURVEScolor")
              /\ simple_bake_props.use_existing_colors => after \in left
              /\ \A o \in DOMAIN objects' :
                   NamedModifiers(objects'[o], "J.CURVEScolor") <= 1]_vars

\* a convert has added the color modifier
C7_Witness ==
    /\ last.fn = "curve.convert_to_mesh" /\ last.ret = "FINISHED"
    /\ "modifier" \in last.made
    /\ active_object # 0
    /\ NamedModifiers(objects[active_object], "J.CURVEScolor") = 1

\* The bake has come to "DECIDE WHICH IMAGE TO BAKE TO"
C8_Reached ==
    /\ BakeCalled
    /\ last.ret # "RAISED"
    /\ <<"ERROR", "No active object selected">> \notin last.reports
    /\ <<"ERROR", "Active material has no node tree">> \notin last.reports

\* The image the fallback order names, in the state execute was entered in
C8_Expected ==
    LET e == last.entry
        editors == {i \in 1..Len(areas) :
                      areas[i].type = "IMAGE_EDITOR" /\ areas[i].image # 0}
        first == CHOOSE i \in editors : \A j \in editors : i <= j
    IN IF editors # {} THEN areas[first].image
       ELSE IF e.active_node # 0 /\ e.nodes[e.active_node].type = "TEX_IMAGE"
       THEN e.nodes[e.active_node].image
       ELSE 0

\* C8: with bake_to_selected_image the target is the image of the first Image
\* Editor area that has one, else the image of the active image texture node,
\* else the operator reports an error and returns CANCELLED having created no
\* image and no node, and no image is ever created; without it a new image of
\* resolution x resolution is created and used.
C8_BakeTargetFallback ==
    C8_Reached
        => LET e == last.entry
               props == jcurves_bake_props
               none == <<"ERROR", "No image selected">> \in last.reports
           IN IF props.bake_to_selected_image
              THEN /\ images = e.images
                   /\ none <=> C8_Expected = 0
                   /\ none => /\ last.ret = "CANCELLED"
                              /\ nodes = e.nodes
                              /\ last.made = {}
                   /\ pc = "baking" => /\ frame.image = C8_Expected
                                       /\ nodes[frame.bake_node].image = C8_Expected
                   /\ last.ret = "FINISHED" => nodes[Len(nodes)].image = C8_Expected
              ELSE /\ ~none
                   /\ pc = "baking"
                        => /\ frame.image \notin {im.id : im \in e.images}
                           /\ [id |-> frame.image, size |-> props.resolution] \in images
                           /\ nodes[frame.bake_node].image = frame.image
                   /\ last.ret = "FINISHED"
                        => \E im \in images \ e.images :
                             /\ im.size = props.resolution
                             /\ nodes[Len(nodes)].image = im.id

\* a bake runs on the active node's image, no Image Editor showing one
C8_Witness ==
    /\ pc = "baking"
    /\ jcurves_bake_props.bake_to_selected_image
    /\ \A i \in 1..Len(areas) : areas[i].image = 0
    /\ frame.image # 0

\* C9: while the host bake runs, the original values of all settings are
\* saved, the bake settings are applied, and the active and only selected node
\* is the new image texture node bound to the target image; the settings are
\* not restored before the bake has returned or raised.
C9_BakeRunsWithSettingsApplied ==
    (pc = "baking" <=> (BakeCalled /\ last.ret = "RUNNING"))
    /\ (pc = "baking"
        => LET e == last.entry.render
               props == jcurves_bake_props
               has_direct == e.use_pass_direct # "ABSENT"
           IN /\ frame.original_engine = e.engine
              /\ frame.original_device = e.device
              /\ frame.old.samples = e.samples
              /\ frame.old.denoise = e.use_denoising
              /\ frame.old.margin = e.margin
              /\ frame.old.clear = e.use_clear
              /\ frame.old.btype = e.bake_type
              /\ frame.old.use_diffuse = e.use_pass_diffuse
              /\ has_direct => /\ frame.old.use_direct = e.use_pass_direct
                               /\ frame.old.use_indirect = e.use_pass_indirect
              /\ render.engine = "CYCLES"
              /\ render.device = "GPU"
              /\ render.samples = props.max_samples
              /\ render.use_denoising = props.denoise
              /\ render.margin = props.bake_margin
              /\ render.use_clear = props.clear_image
              /\ render.bake_type = "DIFFUSE"
              /\ render.use_pass_diffuse = TRUE
              /\ has_direct => /\ render.use_pass_direct = "FALSE"
                               /\ render.use_pass_indirect = "FALSE"
              /\ active_node = frame.bake_node
              /\ active_node = Len(last.entry.nodes) + 1
              /\ nodes[active_node].type = "TEX_IMAGE"
              /\ nodes[active_node].image = frame.image
              /\ \A i \in 1..Len(nodes) : nodes[i].select <=> i = active_node)

\* a bake runs with every setting changed from its original value
C9_Witness ==
    /\ pc = "baking"
    /\ render.engine # last.entry.render.engine
    /\ render.samples # last.entry.render.samples
    /\ render.use_pass_direct # last.entry.render.use_pass_direct
    /\ Len(nodes) > 1

AddCurveCalled == last.fn = "curve.add_jcurve"

FileLacksGroup == ~blend_file.exists \/ "J.CURVES" \notin blend_file.node_groups

AddedModifiers(before, objs, o) ==
    LET had == IF o \in DOMAIN before THEN Len(before[o].modifiers) ELSE 0
    IN {objs[o].modifiers[i] : i \in (had + 1)..Len(objs[o].modifiers)}

====
